---- MODULE Spec2Model ----
(***************************************************************************)
(* Web Whisper: the popup's push-to-talk session (popup.ts), the           *)
(* background relay (handleVoiceCommand) and the content script that       *)
(* executes a command on the page (content.ts).                            *)
(*                                                                         *)
(* A text is a sequence of one-character strings, so that includes(),      *)
(* replace() and trim() are computed on characters as JavaScript does.     *)
(***************************************************************************)
EXTENDS Integers, Sequences, FiniteSets, TLC

\* ------------------------------------------------------------------ bounds
\* Number of press-to-talk invocations (and so of commands) whose state is kept
\* at once; a later invocation takes over the id of one that has ended.
MaxSessions == 2
\* Cap on the length of audioChunks (the code only reads its emptiness).
MaxChunks == 1

Ids == 1..MaxSessions

\* ------------------------------------------------------------------- texts
NoText == <<>>

\* popup.ts:208, the placeholder transcription
simulatedText ==
  <<"s","e","a","r","c","h"," ","f","o","r"," ","r","e","d"," ","s","h","o","e","s"," ","u","n","d","e","r"," ","$","1","0","0">>

WhiteSpace == {" ", "\t", "\n"}

LowerChar(c) ==
  CASE c = "A" -> "a" [] c = "B" -> "b" [] c = "C" -> "c" [] c = "D" -> "d"
    [] c = "E" -> "e" [] c = "F" -> "f" [] c = "G" -> "g" [] c = "H" -> "h"
    [] c = "I" -> "i" [] c = "J" -> "j" [] c = "K" -> "k" [] c = "L" -> "l"
    [] c = "M" -> "m" [] c = "N" -> "n" [] c = "O" -> "o" [] c = "P" -> "p"
    [] c = "Q" -> "q" [] c = "R" -> "r" [] c = "S" -> "s" [] c = "T" -> "t"
    [] c = "U" -> "u" [] c = "V" -> "v" [] c = "W" -> "w" [] c = "X" -> "x"
    [] c = "Y" -> "y" [] c = "Z" -> "z" [] OTHER -> c

\* String.prototype.toLowerCase
RECURSIVE ToLowerCase(_)
ToLowerCase(t) ==
  IF t = <<>> THEN <<>> ELSE <<LowerChar(Head(t))>> \o ToLowerCase(Tail(t))

\* does pat occur in t at (1-based) position i
MatchAt(t, i, pat) ==
  /\ i + Len(pat) - 1 <= Len(t)
  /\ \A k \in 1..Len(pat) : t[i + k - 1] = pat[k]

\* String.prototype.includes
Includes(t, pat) == \E i \in 1..(Len(t) + 1) : MatchAt(t, i, pat)

\* String.prototype.trim
RECURSIVE TrimStart(_)
TrimStart(t) ==
  IF t # <<>> /\ Head(t) \in WhiteSpace THEN TrimStart(Tail(t)) ELSE t

RECURSIVE TrimEnd(_)
TrimEnd(t) ==
  IF t # <<>> /\ t[Len(t)] \in WhiteSpace THEN TrimEnd(SubSeq(t, 1, Len(t) - 1)) ELSE t

Trim(t) == TrimEnd(TrimStart(t))

\* content.ts:65, the alternatives of /search for|find|look for|show me/gi in order
CommandPrefixes ==
  << <<"s","e","a","r","c","h"," ","f","o","r">>,
     <<"f","i","n","d">>,
     <<"l","o","o","k"," ","f","o","r">>,
     <<"s","h","o","w"," ","m","e">> >>

\* index of the first alternative that matches low (the text in lower case, for
\* the i flag) at position i, 0 if none
PrefixAt(low, i) ==
  LET hits == {k \in 1..Len(CommandPrefixes) : MatchAt(low, i, CommandPrefixes[k])}
  IN IF hits = {} THEN 0 ELSE CHOOSE k \in hits : \A j \in hits : k <= j

\* replace(/.../gi, ''): scan left to right, drop every match, keep the other characters
RECURSIVE StripFrom(_, _, _)
StripFrom(t, low, i) ==
  IF i > Len(t) THEN <<>>
  ELSE LET k == PrefixAt(low, i)
       IN IF k # 0
          THEN StripFrom(t, low, i + Len(CommandPrefixes[k]))
          ELSE <<t[i]>> \o StripFrom(t, low, i + 1)

\* content.ts:62-67
extractSearchQuery(text) == Trim(StripFrom(text, ToLowerCase(text), 1))

\* --------------------------------------------------------------------- DOM
\* An element of the page, by the attributes the selectors of content.ts read.
\* within: the ancestor container the descendant selectors name; inForm: closest('form')
\* is not null; visible: offsetParent is not null.
Plain ==
  [tag |-> "div", type |-> "", name |-> "", id |-> "", class |-> "", placeholder |-> "",
   role |-> "", aria |-> "", href |-> "", testid |-> "", within |-> "",
   inForm |-> FALSE, visible |-> TRUE]

\* The elements pages are built from (an element's identity is its index here).
Elements ==
  << \* 1: <form><input type="search" id="q" name="q"></form>
     [Plain EXCEPT !.tag = "input", !.type = "search", !.id = "q", !.name = "q", !.inForm = TRUE],
     \* 2: <input type="text" name="search"> outside any form
     [Plain EXCEPT !.tag = "input", !.type = "text", !.name = "search"],
     \* 3: <input type="text" placeholder="Search products" class="site-search">
     [Plain EXCEPT !.tag = "input", !.type = "text", !.placeholder = "Search products",
                   !.class = "site-search"],
     \* 4: <input type="number" name="search_radius">
     [Plain EXCEPT !.tag = "input", !.type = "number", !.name = "search_radius"],
     \* 5: <input type="file" name="search_by_image">
     [Plain EXCEPT !.tag = "input", !.type = "file", !.name = "search_by_image"],
     \* 6: <textarea name="q">
     [Plain EXCEPT !.tag = "textarea", !.name = "q"],
     \* 7: <button type="submit" aria-label="Search">
     [Plain EXCEPT !.tag = "button", !.type = "submit", !.aria = "Search"],
     \* 8: a hidden <button type="submit">
     [Plain EXCEPT !.tag = "button", !.type = "submit", !.visible = FALSE],
     \* 9: <button aria-label="Next page">
     [Plain EXCEPT !.tag = "button", !.aria = "Next page"],
     \* 10: <a href="/results?page=1" aria-label="Previous page">
     [Plain EXCEPT !.tag = "a", !.href = "/results?page=1", !.aria = "Previous page"],
     \* 11: <a href="/results?page=3" aria-label="Next page">
     [Plain EXCEPT !.tag = "a", !.href = "/results?page=3", !.aria = "Next page"],
     \* 12: <div class="content">
     Plain,
     \* 13: <input type="search" name="q" style="display:none">
     [Plain EXCEPT !.tag = "input", !.type = "search", !.name = "q", !.visible = FALSE] >>

ElemIds == 1..Len(Elements)

\* attribute values of Elements that contain "search" in any letter case
HasSearch(v) ==
  v \in {"search", "Search", "Search products", "site-search", "search_radius", "search_by_image"}
HasNext(v) == v \in {"Next page"}
HasPrevious(v) == v \in {"Previous page"}
HasPage(v) == v \in {"/results?page=1", "/results?page=3"}

\* content.ts:187-209, the selectors of findSearchInputs in order
NumSearchSelectors == 16

SearchSelectorMatches(k, el) ==
  CASE k = 1  -> el.tag = "input" /\ el.type = "search"
    [] k = 2  -> el.tag = "input" /\ HasSearch(el.placeholder)
    [] k = 3  -> el.tag = "input" /\ HasSearch(el.name)
    [] k = 4  -> el.tag = "input" /\ HasSearch(el.id)
    [] k = 5  -> el.tag = "input" /\ HasSearch(el.class)
    [] k = 6  -> el.tag = "input" /\ el.within = ".search-input"
    [] k = 7  -> el.tag = "input" /\ el.within = "#search"
    [] k = 8  -> el.role = "searchbox"
    [] k = 9  -> el.tag = "input" /\ el.id = "input" /\ el.type = "search"
    [] k = 10 -> el.tag = "input" /\ el.class = "gLFyf"
    [] k = 11 -> el.tag = "input" /\ el.name = "q"
    [] k = 12 -> el.tag = "textarea" /\ el.name = "q"
    [] k = 13 -> el.tag = "input" /\ el.class = "baeIxf"
    [] k = 14 -> el.tag = "input" /\ el.name = "field-keywords"
    [] k = 15 -> el.tag = "input" /\ el.id = "twotabsearchtextbox"
    [] k = 16 -> el.tag = "input" /\ HasSearch(el.placeholder)

\* document.querySelectorAll(selector k of findSearchInputs), in document order
QuerySearchSelector(doc, k) ==
  LET Test(e) == SearchSelectorMatches(k, Elements[e]) IN SelectSeq(doc, Test)

IsInputElement(e) == Elements[e].tag = "input"

\* content.ts:186-223: every selector in turn, each match that is an
\* HTMLInputElement pushed (an element matched by two selectors is pushed twice)
RECURSIVE SearchInputsFrom(_, _)
SearchInputsFrom(doc, k) ==
  IF k > NumSearchSelectors THEN <<>>
  ELSE SelectSeq(QuerySearchSelector(doc, k), IsInputElement) \o SearchInputsFrom(doc, k + 1)

findSearchInputs(doc) == SearchInputsFrom(doc, 1)

\* content.ts:239-255, the selectors of findNavigationElements after line 262 has
\* removed :contains(...), so the first selector of both lists is a[href*="page"]
NumNavSelectors == 6

NavSelectorMatches(direction, k, el) ==
  IF direction = "next"
  THEN CASE k = 1 -> el.tag = "a" /\ HasPage(el.href)
         [] k = 2 -> el.tag = "button" /\ HasNext(el.aria)
         [] k = 3 -> el.tag = "a" /\ HasNext(el.aria)
         [] k = 4 -> el.within = ".pagination" /\ el.class = "next"
         [] k = 5 -> el.within = ".pager" /\ el.class = "next"
         [] k = 6 -> el.testid = "next"
  ELSE CASE k = 1 -> el.tag = "a" /\ HasPage(el.href)
         [] k = 2 -> el.tag = "button" /\ HasPrevious(el.aria)
         [] k = 3 -> el.tag = "a" /\ HasPrevious(el.aria)
         [] k = 4 -> el.within = ".pagination" /\ el.class = "prev"
         [] k = 5 -> el.within = ".pager" /\ el.class = "prev"
         [] k = 6 -> el.testid = "prev"

QueryNavSelector(doc, direction, k) ==
  LET Test(e) == NavSelectorMatches(direction, k, Elements[e]) IN SelectSeq(doc, Test)

IsHTMLElement(e) == Elements[e].tag # "svg"

RECURSIVE NavElementsFrom(_, _, _)
NavElementsFrom(doc, direction, k) ==
  IF k > NumNavSelectors THEN <<>>
  ELSE SelectSeq(QueryNavSelector(doc, direction, k), IsHTMLElement)
         \o NavElementsFrom(doc, direction, k + 1)

\* content.ts:238-272
findNavigationElements(doc, direction) == NavElementsFrom(doc, direction, 1)

\* content.ts:137-143, the five querySelector calls in order
NumButtonSelectors == 5

ButtonSelectorMatches(k, el) ==
  CASE k = 1 -> el.tag = "input" /\ el.name = "btnK"
    [] k = 2 -> el.tag = "cr-searchbox-icon" /\ el.id = "icon"
    [] k = 3 -> el.tag = "button" /\ HasSearch(el.aria)
    [] k = 4 -> el.tag = "button" /\ el.type = "submit"
    [] k = 5 -> el.role = "button" /\ HasSearch(el.aria)

\* document.querySelector: the first match in document order (a one-element
\* sequence), or null (the empty sequence)
QueryButtonSelector(doc, k) ==
  LET Test(e) == ButtonSelectorMatches(k, Elements[e])
      all == SelectSeq(doc, Test)
  IN IF all = <<>> THEN <<>> ELSE <<Head(all)>>

IsVisible(e) == Elements[e].visible

\* content.ts:137-143: the non-null results whose offsetParent is not null
RECURSIVE SearchButtonsFrom(_, _)
SearchButtonsFrom(doc, k) ==
  IF k > NumButtonSelectors THEN <<>>
  ELSE SelectSeq(QueryButtonSelector(doc, k), IsVisible) \o SearchButtonsFrom(doc, k + 1)

searchButtons(doc) == SearchButtonsFrom(doc, 1)

\* The value setter of HTMLInputElement (content.ts:109), by input type.
Digits == {"0","1","2","3","4","5","6","7","8","9"}
IsNumberText(q) == q # <<>> /\ \A i \in 1..Len(q) : q[i] \in Digits
NotLineBreak(ch) == ch \notin {"\n", "\r"}

\* type=file: assigning a non-empty string throws InvalidStateError
ValueSetterThrows(e, q) == Elements[e].type = "file" /\ q # <<>>

\* type=number: a string that is no valid number is sanitized to the empty string;
\* text-like types: line breaks are stripped
ValueAfterSet(e, q) ==
  IF Elements[e].type = "number"
  THEN (IF IsNumberText(q) THEN q ELSE <<>>)
  ELSE SelectSeq(q, NotLineBreak)

\* ---------------------------------------------------------------- messages
\* A response object { success, result?, error? }; an absent member is <<>>
\* (for the background's result, which holds the content script's response, NoResponse).
NoResponse == [present |-> FALSE, success |-> FALSE, result |-> <<>>, error |-> <<>>]
Succeeded(r) == [present |-> TRUE, success |-> TRUE, result |-> r, error |-> <<>>]
Failed(e) == [present |-> TRUE, success |-> FALSE, result |-> <<>>, error |-> e]

\* commandData; defined = FALSE when commandData.text is undefined
Command(t) == [defined |-> TRUE, text |-> t]
NoCommand == [defined |-> FALSE, text |-> NoText]

\* ------------------------------------------------------------------- state
VARIABLES
  \* popup.ts:13-15
  isRecording,    \* BOOLEAN
  mediaRecorder,  \* 0 (null) or the id of the recorder last assigned
  audioChunks,    \* number of chunks in the audioChunks array
  \* the popup's elements
  status,         \* statusElement: [message, type]
  button,         \* voiceButton: [state, disabled]
  transcription,  \* transcriptionElement.textContent
  \* the pointer: TRUE from a mousedown on the button to the next mouseup/mouseleave
  held,
  \* per startRecording invocation that passed the isRecording guard (id = its
  \* recorder, its session and its command):
  ses,            \* where the invocation, its recorder and its pipeline stand
  basic,          \* recorders started by trySimpleRecording (start() without timeslice)
  streamLive,     \* ids whose microphone stream has live tracks
  captured,       \* ids whose live recorder has delivered data of size > 0
  overdue,        \* ids whose sendMessage call has waited longer than the bounded wait
  \* background
  bg,             \* where handleVoiceCommand stands for the request
  popupReply,     \* the settlement of the popup's sendMessage call: <<>> until it settles
  cmd,            \* the command data carried by the request
  \* content script
  cs,             \* where handleExecuteCommand stands for the request
  csLocal,        \* searchInput and query of a suspended performSearch
  csReply,        \* sendResponse's argument: <<>> until the content script answers
  delayed,        \* ids whose setTimeout(..., 200) callback is pending
  analysis,       \* the response to the last ANALYZE_PAGE request: <<>> before the first
  \* the page
  page,           \* the document: element ids in document order
  value,          \* the value of each element
  log,            \* DOM writes in order: [cmd, on, ev]
  \* history of each invocation's press-release cycle
  runs            \* per id: release events seen and how often each pipeline stage ran

popupVars == <<isRecording, mediaRecorder, audioChunks, status, button, transcription,
               held, ses, basic, streamLive, captured, overdue>>
bgVars == <<bg, popupReply, cmd>>
csVars == <<cs, csLocal, csReply, delayed, analysis>>
domVars == <<page, value, log>>
vars == <<popupVars, bgVars, csVars, domVars, runs>>

\* the history of a cycle nothing has happened in
NoRuns == [releases |-> 0, completed |-> 0, sent |-> 0, forwarded |-> 0, executed |-> 0]

\* one more, counted up to "twice or more"
Once(n) == IF n < 2 THEN n + 1 ELSE n

\* popup.ts:251-254
updateStatus(message, type) == [message |-> message, type |-> type]

\* popup.ts:256-273
updateButton(state) == [state |-> state, disabled |-> (state = "processing")]

\* An id is free when no invocation has used it, or when the session that used it
\* has ended in every context with nothing of it pending: a later invocation takes
\* the id over, so MaxSessions bounds the sessions alive at once, not presses.
Ended(p) ==
  /\ ses[p] \in {"micFailed", "noAudio", "done"}
  /\ bg[p] \in {"idle", "lost", "done"}
  /\ cs[p] \in {"idle", "done"}
  /\ p \notin delayed

Free(p) == ses[p] = "unused" \/ Ended(p)

\* the id a new invocation takes: the smallest unused one, else the smallest
\* ended one (0 when none is left)
Smallest(S) == CHOOSE p \in S : \A q \in S : p <= q

FreeId ==
  IF \E p \in Ids : ses[p] = "unused" THEN Smallest({p \in Ids : ses[p] = "unused"})
  ELSE IF \E p \in Ids : Ended(p) THEN Smallest({p \in Ids : Ended(p)})
  ELSE 0

\* the records of an ended session, dropped when its id is taken over
Forget(p) ==
  /\ basic' = basic \ {p}
  /\ bg' = [bg EXCEPT ![p] = "idle"]
  /\ cmd' = [cmd EXCEPT ![p] = NoCommand]
  /\ cs' = [cs EXCEPT ![p] = "idle"]
  /\ csLocal' = [csLocal EXCEPT ![p] = [input |-> 0, query |-> NoText]]
  /\ popupReply' = [popupReply EXCEPT ![p] = <<>>]
  /\ csReply' = [csReply EXCEPT ![p] = <<>>]
  /\ LET Other(w) == w.cmd # p IN log' = SelectSeq(log, Other)
  /\ runs' = [runs EXCEPT ![p] = NoRuns]

\* popup.ts:128-160, what getUserMedia can reject with, and the status shown
MicErrors == {"NotAllowedError", "NotFoundError", "NotReadableError",
              "OverconstrainedError", "SecurityError", "AbortError"}

MicErrorStatus(name) ==
  CASE name = "NotAllowedError"      -> <<"Microphone access denied">>
    [] name = "NotFoundError"        -> <<"No microphone found">>
    [] name = "NotReadableError"     -> <<"Microphone in use">>
    [] name = "OverconstrainedError" -> <<"Microphone constraints error">>
    [] name = "SecurityError"        -> <<"Security error">>
    [] OTHER                         -> <<"Microphone error">>

\* popup.ts:64-94: mousedown on the button (not dispatched while it is disabled).
\* supported = FALSE: navigator.mediaDevices is missing and line 79 throws
\* Error('Microphone not supported'), which the catch shows as 'Microphone error'.
startRecording ==
  /\ ~held
  /\ ~button.disabled
  /\ held' = TRUE
  /\ IF isRecording
     THEN UNCHANGED <<ses, status, basic, bg, cmd, cs, csLocal, popupReply, csReply, log, runs>>
     ELSE /\ FreeId # 0
          /\ Forget(FreeId)
          /\ \E supported \in BOOLEAN :
               IF supported
               THEN /\ status' = updateStatus(<<"Checking microphone access...">>, "processing")
                    /\ ses' = [ses EXCEPT ![FreeId] = "awaitMic"]
               ELSE /\ status' = updateStatus(MicErrorStatus("Error"), "ready")
                    /\ ses' = [ses EXCEPT ![FreeId] = "micFailed"]
  /\ UNCHANGED <<isRecording, mediaRecorder, audioChunks, button, transcription,
                 streamLive, captured, overdue, delayed, analysis, page, value>>

\* popup.ts:96-118: getUserMedia resolved
startRecordingResume(p) ==
  /\ ses[p] = "awaitMic"
  /\ mediaRecorder' = p
  /\ audioChunks' = 0
  /\ ses' = [ses EXCEPT ![p] = "recording"]
  /\ streamLive' = streamLive \cup {p}
  /\ isRecording' = TRUE
  /\ status' = updateStatus(<<"Recording... (release to process)">>, "recording")
  /\ button' = updateButton("recording")
  /\ UNCHANGED <<runs, transcription, held, basic, captured, overdue, bgVars, csVars, domVars>>

\* popup.ts:120-165: getUserMedia rejected; line 149 calls trySimpleRecording,
\* which runs to its own getUserMedia call (popup.ts:286-293)
startRecordingCatch(p, name) ==
  /\ ses[p] = "awaitMic"
  /\ status' = updateStatus(MicErrorStatus(name), "ready")
  /\ ses' = [ses EXCEPT ![p] = IF name = "OverconstrainedError"
                                THEN "awaitSimpleMic" ELSE "micFailed"]
  /\ UNCHANGED <<runs, isRecording, mediaRecorder, audioChunks, button, transcription, held,
                 basic, streamLive, captured, overdue, bgVars, csVars, domVars>>

\* popup.ts:295-314
trySimpleRecordingResume(p) ==
  /\ ses[p] = "awaitSimpleMic"
  /\ mediaRecorder' = p
  /\ audioChunks' = 0
  /\ ses' = [ses EXCEPT ![p] = "recording"]
  /\ basic' = basic \cup {p}
  /\ streamLive' = streamLive \cup {p}
  /\ isRecording' = TRUE
  /\ status' = updateStatus(<<"Recording... (basic mode)">>, "recording")
  /\ button' = updateButton("recording")
  /\ UNCHANGED <<runs, transcription, held, captured, overdue, bgVars, csVars, domVars>>

\* popup.ts:316-320
trySimpleRecordingCatch(p) ==
  /\ ses[p] = "awaitSimpleMic"
  /\ status' = updateStatus(<<"Microphone unavailable">>, "ready")
  /\ button' = updateButton("ready")
  /\ ses' = [ses EXCEPT ![p] = "micFailed"]
  /\ UNCHANGED <<runs, isRecording, mediaRecorder, audioChunks, transcription, held,
                 basic, streamLive, captured, overdue, bgVars, csVars, domVars>>

\* stopRecording without the assignment of popup.ts:173: isRecording stays true
stopRecording_KeepsFlag ==
  IF ~isRecording \/ mediaRecorder = 0
  THEN UNCHANGED <<isRecording, ses, streamLive, status, button>>
  ELSE /\ isRecording' = isRecording
       /\ ses' = [ses EXCEPT ![mediaRecorder] = "stopping"]
       /\ streamLive' = streamLive \ {mediaRecorder}
       /\ status' = updateStatus(<<"Processing your command...">>, "processing")
       /\ button' = updateButton("processing")

\* popup.ts:168-182, the body of stopRecording as a relation on the popup's state
stopRecording ==
  IF ~isRecording \/ mediaRecorder = 0
  THEN UNCHANGED <<isRecording, ses, streamLive, status, button>>
  ELSE /\ isRecording' = FALSE
       /\ ses' = [ses EXCEPT ![mediaRecorder] = "stopping"]
       /\ streamLive' = streamLive \ {mediaRecorder}
       /\ status' = updateStatus(<<"Processing your command...">>, "processing")
       /\ button' = updateButton("processing")

\* popup.ts:29, 31: a release event (mouseup or mouseleave) is delivered; it is
\* counted for the recorder it finds in mediaRecorder until that one's recording is
\* handed on as a command (or dropped as empty), where the count is dropped
released ==
  IF mediaRecorder # 0
     /\ ses[mediaRecorder] \in {"recording", "stopping", "transcribing"}
  THEN [runs EXCEPT ![mediaRecorder].releases = Once(@)]
  ELSE runs

\* popup.ts:29: mouseup on the button
mouseup ==
  /\ held
  /\ held' = FALSE
  /\ stopRecording
  /\ runs' = released
  /\ UNCHANGED <<mediaRecorder, audioChunks, transcription, basic, captured, overdue,
                 bgVars, csVars, domVars>>

\* popup.ts:31: the pointer leaves the button (pressed or not)
mouseleave ==
  /\ held' = FALSE
  /\ stopRecording
  /\ runs' = released
  /\ UNCHANGED <<mediaRecorder, audioChunks, transcription, basic, captured, overdue,
                 bgVars, csVars, domVars>>

\* popup.ts:105-109 (and 301-305): a timeslice of a recorder started with start(100);
\* size is event.data.size
ondataavailable(p, size) ==
  /\ ses[p] = "recording"
  /\ p \notin basic
  /\ size > 0 => audioChunks < MaxChunks
  /\ audioChunks' = IF size > 0 THEN audioChunks + 1 ELSE audioChunks
  /\ captured' = IF size > 0 THEN captured \cup {p} ELSE captured
  /\ UNCHANGED <<runs, isRecording, mediaRecorder, status, button, transcription, held, ses,
                 basic, streamLive, overdue, bgVars, csVars, domVars>>

\* The task MediaRecorder.stop() queues: a last dataavailable (popup.ts:105-109), then
\* the stop event, whose handler is handleRecordingComplete (popup.ts:184-200) up to
\* the setTimeout of simulateSpeechRecognition (popup.ts:205).
handleRecordingComplete(p, size) ==
  /\ ses[p] = "stopping"
  /\ size > 0 => audioChunks < MaxChunks
  /\ LET chunks == IF size > 0 THEN audioChunks + 1 ELSE audioChunks
     IN /\ audioChunks' = chunks
        /\ IF chunks = 0
           THEN /\ status' = updateStatus(<<"No audio recorded">>, "ready")
                /\ button' = updateButton("ready")
                /\ ses' = [ses EXCEPT ![p] = "noAudio"]
           ELSE /\ ses' = [ses EXCEPT ![p] = "transcribing"]
                /\ UNCHANGED <<status, button>>
  /\ captured' = captured \ {p}
  /\ runs' = [runs EXCEPT ![p].completed = Once(@),
                          ![p].releases = IF ses'[p] = "noAudio" THEN 0 ELSE @]
  /\ UNCHANGED <<isRecording, mediaRecorder, transcription, held, basic, streamLive,
                 overdue, bgVars, csVars, domVars>>

\* popup.ts:207-217 and 226-233: the timer fired; the transcription is shown and
\* PROCESS_VOICE_COMMAND is sent
simulateSpeechRecognition(p) ==
  /\ ses[p] = "transcribing"
  /\ transcription' = simulatedText
  /\ ses' = [ses EXCEPT ![p] = "awaitReply"]
  /\ bg' = [bg EXCEPT ![p] = "inbox"]
  /\ cmd' = [cmd EXCEPT ![p] = Command(simulatedText)]
  /\ runs' = [runs EXCEPT ![p].sent = Once(@), ![p].releases = 0]
  /\ UNCHANGED <<isRecording, mediaRecorder, audioChunks, status, button, held, basic,
                 streamLive, captured, overdue, popupReply, csVars, domVars>>

\* popup.ts:230-233: the bounded wait (5-10 s) passes with the call still pending;
\* the code arms no timer, so nothing else changes
boundedWaitElapses(p) ==
  /\ ses[p] = "awaitReply"
  /\ p \notin overdue
  /\ overdue' = overdue \cup {p}
  /\ UNCHANGED <<runs, isRecording, mediaRecorder, audioChunks, status, button, transcription,
                 held, ses, basic, streamLive, captured, bgVars, csVars, domVars>>

\* A settled sendMessage call: the response object, undefined, or a rejection
Response(r) == [kind |-> "response", value |-> r]
Undefined == [kind |-> "undefined", value |-> NoResponse]
Rejected == [kind |-> "rejected", value |-> NoResponse]

\* popup.ts:235-248; reading success of undefined throws into the catch
processVoiceCommandStatus(reply) ==
  IF reply.kind = "response"
  THEN IF reply.value.success
       THEN updateStatus(<<"Command executed successfully">>, "ready")
       ELSE updateStatus(<<"x ", reply.value.error>>, "ready")
  ELSE updateStatus(<<"Command processing failed">>, "ready")

\* processVoiceCommand with a catch block that leaves the button as it is
processVoiceCommand_CatchKeepsButton(p) ==
  /\ ses[p] = "awaitReply"
  /\ popupReply[p] # <<>>
  /\ status' = processVoiceCommandStatus(Head(popupReply[p]))
  /\ button' = IF Head(popupReply[p]).kind = "response" THEN updateButton("ready") ELSE button
  /\ ses' = [ses EXCEPT ![p] = "done"]
  /\ overdue' = overdue \ {p}
  /\ UNCHANGED <<runs, isRecording, mediaRecorder, audioChunks, transcription, held, basic,
                 streamLive, captured, bgVars, csVars, domVars>>

\* popup.ts:235-248: the sendMessage call settled
processVoiceCommand(p) ==
  /\ ses[p] = "awaitReply"
  /\ popupReply[p] # <<>>
  /\ status' = processVoiceCommandStatus(Head(popupReply[p]))
  /\ button' = updateButton("ready")
  /\ ses' = [ses EXCEPT ![p] = "done"]
  /\ overdue' = overdue \ {p}
  /\ UNCHANGED <<runs, isRecording, mediaRecorder, audioChunks, transcription, held, basic,
                 streamLive, captured, bgVars, csVars, domVars>>

\* ------------------------------------------------------------- background
\* chrome.runtime.sendMessage of popup.ts:230 settles without the listener of
\* popup.ts:361 having run (no receiving end): a rejection, or undefined
sendMessageUnanswered(p, how) ==
  /\ bg[p] = "inbox"
  /\ bg' = [bg EXCEPT ![p] = "lost"]
  /\ popupReply' = [popupReply EXCEPT ![p] = <<how>>]
  /\ UNCHANGED <<runs, popupVars, cmd, csVars, domVars>>

\* popup.ts:361-368 and 383-388: the listener runs handleVoiceCommand up to tabs.query
handleVoiceCommand(p) ==
  /\ bg[p] = "inbox"
  /\ bg' = [bg EXCEPT ![p] = "query"]
  /\ UNCHANGED <<runs, popupVars, popupReply, cmd, csVars, domVars>>

\* what tabs.query finds: no active tab, a tab running the content script, or a
\* tab without one (tabs.sendMessage will reject)
Tabs == {"none", "page", "restricted"}

\* handleVoiceCommand without the return of popup.ts:392: with no active tab it
\* answers and goes on to forward the command
handleVoiceCommandTab_NoReturn(p, tab) ==
  /\ bg[p] = "query"
  /\ CASE tab = "none" ->
            /\ popupReply' = [popupReply EXCEPT
                                ![p] = <<Response(Failed(<<"No active tab found">>))>>]
            /\ bg' = [bg EXCEPT ![p] = "done"]
            /\ cs' = [cs EXCEPT ![p] = "inbox"]
       [] tab = "page" ->
            /\ cs' = [cs EXCEPT ![p] = "inbox"]
            /\ bg' = [bg EXCEPT ![p] = "forwarded"]
            /\ UNCHANGED popupReply
       [] tab = "restricted" ->
            /\ bg' = [bg EXCEPT ![p] = "rejecting"]
            /\ UNCHANGED <<popupReply, cs>>
  /\ runs' = [runs EXCEPT ![p].forwarded = Once(@)]
  /\ UNCHANGED <<popupVars, cmd, csLocal, csReply, delayed, analysis, domVars>>

\* popup.ts:388-399: tabs.query resolved
handleVoiceCommandTab(p, tab) ==
  /\ bg[p] = "query"
  /\ CASE tab = "none" ->
            /\ popupReply' = [popupReply EXCEPT
                                ![p] = <<Response(Failed(<<"No active tab found">>))>>]
            /\ bg' = [bg EXCEPT ![p] = "done"]
            /\ UNCHANGED cs
       [] tab = "page" ->
            /\ cs' = [cs EXCEPT ![p] = "inbox"]
            /\ bg' = [bg EXCEPT ![p] = "forwarded"]
            /\ UNCHANGED popupReply
       [] tab = "restricted" ->
            /\ bg' = [bg EXCEPT ![p] = "rejecting"]
            /\ UNCHANGED <<popupReply, cs>>
  /\ runs' = IF tab = "none" THEN runs ELSE [runs EXCEPT ![p].forwarded = Once(@)]
  /\ UNCHANGED <<popupVars, cmd, csLocal, csReply, delayed, analysis, domVars>>

\* popup.ts:401: the content script answered
handleVoiceCommandResume(p) ==
  /\ bg[p] = "forwarded"
  /\ csReply[p] # <<>>
  /\ popupReply' = [popupReply EXCEPT ![p] = <<Response(Succeeded(Head(csReply[p])))>>]
  /\ bg' = [bg EXCEPT ![p] = "done"]
  /\ UNCHANGED <<runs, popupVars, cmd, csVars, domVars>>

\* handleVoiceCommand with a catch block that only logs the error
handleVoiceCommandCatch_OnlyLogs(p) ==
  /\ bg[p] = "rejecting"
  /\ bg' = [bg EXCEPT ![p] = "done"]
  /\ UNCHANGED <<runs, popupVars, popupReply, cmd, csVars, domVars>>

\* popup.ts:403-407: tabs.sendMessage rejected
handleVoiceCommandCatch(p) ==
  /\ bg[p] = "rejecting"
  /\ popupReply' = [popupReply EXCEPT
                      ![p] = <<Response(Failed(<<"Could not establish connection. Receiving end does not exist.">>))>>]
  /\ bg' = [bg EXCEPT ![p] = "done"]
  /\ UNCHANGED <<runs, popupVars, cmd, csVars, domVars>>

\* ---------------------------------------------------------- content script
\* content.ts:42
commandText(commandData) ==
  IF commandData.defined THEN ToLowerCase(commandData.text) ELSE <<>>

\* executeBasicCommand with a last branch that navigates instead of returning
\* 'Command not recognized'
executeBasicCommand_DefaultsToNext(text) ==
  IF Includes(text, <<"s","e","a","r","c","h">>) \/ Includes(text, <<"f","i","n","d">>)
  THEN "search"
  ELSE IF Includes(text, <<"p","r","e","v","i","o","u","s"," ","p","a","g","e">>) \/ Includes(text, <<"b","a","c","k">>)
  THEN "previous"
  ELSE "next"

\* content.ts:45-59: the branch executeBasicCommand takes
executeBasicCommand(text) ==
  IF Includes(text, <<"s","e","a","r","c","h">>) \/ Includes(text, <<"f","i","n","d">>)
  THEN "search"
  ELSE IF Includes(text, <<"n","e","x","t"," ","p","a","g","e">>) \/ Includes(text, <<"n","e","x","t">>)
  THEN "next"
  ELSE IF Includes(text, <<"p","r","e","v","i","o","u","s"," ","p","a","g","e">>) \/ Includes(text, <<"b","a","c","k">>)
  THEN "previous"
  ELSE "unknown"

\* The command data an EXECUTE_VOICE_COMMAND message can carry
Commands ==
  {
     \* search for red shoes under $100
     Command(<<"s","e","a","r","c","h"," ","f","o","r"," ","r","e","d"," ","s","h","o","e","s"," ","u","n","d","e","r"," ","$","1","0","0">>),
     \* Find Blue Jeans
     Command(<<"F","i","n","d"," ","B","l","u","e"," ","J","e","a","n","s">>),
     \* search for 100
     Command(<<"s","e","a","r","c","h"," ","f","o","r"," ","1","0","0">>),
     \* find
     Command(<<"f","i","n","d">>),
     \* next page
     Command(<<"n","e","x","t"," ","p","a","g","e">>),
     \* go back
     Command(<<"g","o"," ","b","a","c","k">>),
     \* previous page
     Command(<<"p","r","e","v","i","o","u","s"," ","p","a","g","e">>),
     \* hello
     Command(<<"h","e","l","l","o">>),
     \* a message whose data has no text
     NoCommand }

\* Further command data: texts that hold the keywords of the documented intents
MoreCommands ==
  {
     \* only show next
     Command(<<"o","n","l","y"," ","s","h","o","w"," ","n","e","x","t">>),
     \* find next page
     Command(<<"f","i","n","d"," ","n","e","x","t"," ","p","a","g","e">>),
     \* look for blue jeans
     Command(<<"l","o","o","k"," ","f","o","r"," ","b","l","u","e"," ","j","e","a","n","s">>),
     \* under 50
     Command(<<"u","n","d","e","r"," ","5","0">>),
     \* more results
     Command(<<"m","o","r","e"," ","r","e","s","u","l","t","s">>),
     \* previous
     Command(<<"p","r","e","v","i","o","u","s">>),
     \* find a finder
     Command(<<"f","i","n","d"," ","a"," ","f","i","n","d","e","r">>),
     \* the empty text
     Command(<<>>) }

AllCommands == Commands \cup MoreCommands

\* content.ts:42-47: what executeBasicCommand makes of a command, computed once
\* per command of the catalogue: the branch it takes and the query it extracts
Interpretation(commandData) ==
  [branch |-> executeBasicCommand(commandText(commandData)),
   query |-> extractSearchQuery(commandText(commandData))]

Interpretations ==
  [commandData \in AllCommands |-> Interpretation(commandData)] @@ [x \in {} |-> x]

Write(c, e, ev) == [cmd |-> c, on |-> e, ev |-> ev]

\* the document itself as the target of an event
Document == 0

\* performSearch with the early return of content.ts:87-101 replaced by an Enter
\* key dispatched on the document
performSearch_EnterWithoutInput(c, query, doc, val, lg) ==
  LET searchInputs == findSearchInputs(doc)
      e == Head(searchInputs)
  IN IF searchInputs = <<>>
     THEN [outcome |-> "returned", value |-> val,
           log |-> Append(lg, Write(c, Document, "keydown")), input |-> 0]
     ELSE IF ValueSetterThrows(e, query)
     THEN [outcome |-> "threw", value |-> val, log |-> lg, input |-> e]
     ELSE [outcome |-> "waiting",
           value |-> [val EXCEPT ![e] = ValueAfterSet(e, query)],
           log |-> lg \o <<Write(c, e, "value"), Write(c, e, "input"),
                           Write(c, e, "change"), Write(c, e, "focus")>>,
           input |-> e]

\* performSearch keeping the input found for an earlier command: discovery is run
\* only when no command has found one yet
performSearch_ReusesInput(c, query, doc, val, lg) ==
  LET kept == {csLocal[d].input : d \in Ids} \ {0}
      searchInputs == IF kept # {} THEN <<CHOOSE e \in kept : TRUE>>
                      ELSE findSearchInputs(doc)
      e == Head(searchInputs)
  IN IF searchInputs = <<>>
     THEN [outcome |-> "returned", value |-> val, log |-> lg, input |-> 0]
     ELSE IF ValueSetterThrows(e, query)
     THEN [outcome |-> "threw", value |-> val, log |-> lg, input |-> e]
     ELSE [outcome |-> "waiting",
           value |-> [val EXCEPT ![e] = ValueAfterSet(e, query)],
           log |-> lg \o <<Write(c, e, "value"), Write(c, e, "input"),
                           Write(c, e, "change"), Write(c, e, "focus")>>,
           input |-> e]

\* performSearch with the two dispatches of content.ts:113-114 exchanged
performSearch_ChangeBeforeInput(c, query, doc, val, lg) ==
  LET searchInputs == findSearchInputs(doc)
      e == Head(searchInputs)
  IN IF searchInputs = <<>>
     THEN [outcome |-> "returned", value |-> val, log |-> lg, input |-> 0]
     ELSE IF ValueSetterThrows(e, query)
     THEN [outcome |-> "threw", value |-> val, log |-> lg, input |-> e]
     ELSE [outcome |-> "waiting",
           value |-> [val EXCEPT ![e] = ValueAfterSet(e, query)],
           log |-> lg \o <<Write(c, e, "value"), Write(c, e, "change"),
                           Write(c, e, "input"), Write(c, e, "focus")>>,
           input |-> e]

\* content.ts:69-120: performSearch up to the 100 ms wait. The result is
\* [outcome, value, log, input]: "returned" (no input found), "threw" (the value
\* setter threw) or "waiting".
performSearch(c, query, doc, val, lg) ==
  LET searchInputs == findSearchInputs(doc)
      e == Head(searchInputs)
  IN IF searchInputs = <<>>
     THEN [outcome |-> "returned", value |-> val, log |-> lg, input |-> 0]
     ELSE IF ValueSetterThrows(e, query)
     THEN [outcome |-> "threw", value |-> val, log |-> lg, input |-> e]
     ELSE [outcome |-> "waiting",
           value |-> [val EXCEPT ![e] = ValueAfterSet(e, query)],
           log |-> lg \o <<Write(c, e, "value"), Write(c, e, "input"),
                           Write(c, e, "change"), Write(c, e, "focus")>>,
           input |-> e]

\* performNavigation clicking the last discovered element, not navElements[0]
performNavigation_ClicksLast(doc, direction) ==
  LET navElements == findNavigationElements(doc, direction)
  IN IF navElements = <<>>
     THEN [clicked |-> 0, message |-> <<"No ", direction, " button found on this page">>]
     ELSE [clicked |-> navElements[Len(navElements)],
           message |-> <<"Clicked ", direction, " button">>]

\* content.ts:225-236: the result is [clicked, message]
performNavigation(doc, direction) ==
  LET navElements == findNavigationElements(doc, direction)
  IN IF navElements = <<>>
     THEN [clicked |-> 0, message |-> <<"No ", direction, " button found on this page">>]
     ELSE [clicked |-> navElements[1], message |-> <<"Clicked ", direction, " button">>]

\* content.ts:7-13, 24-60: the listener runs handleExecuteCommand, which runs
\* executeBasicCommand to its end or to the wait of performSearch
handleExecuteCommand(c) ==
  /\ cs[c] = "inbox"
  /\ \E branch \in {Interpretations[cmd[c]].branch} :
       CASE branch = "search" ->
              \E query \in {Interpretations[cmd[c]].query} :
              \E s \in {performSearch(c, query, page, value, log)} :
                /\ value' = s.value
                /\ log' = s.log
                /\ cs' = [cs EXCEPT ![c] = IF s.outcome = "waiting" THEN "wait100" ELSE "done"]
                /\ csLocal' = [csLocal EXCEPT ![c] = [input |-> s.input, query |-> query]]
                /\ csReply' = [csReply EXCEPT ![c] =
                     CASE s.outcome = "returned" ->
                            <<Succeeded(<<"No search box found on this page">>)>>
                       [] s.outcome = "threw" -> <<Failed(<<"InvalidStateError">>)>>
                       [] OTHER -> <<>>]
         [] branch \in {"next", "previous"} ->
              \E n \in {performNavigation(page, branch)} :
                /\ log' = IF n.clicked = 0 THEN log
                          ELSE Append(log, Write(c, n.clicked, "click"))
                /\ cs' = [cs EXCEPT ![c] = "done"]
                /\ csReply' = [csReply EXCEPT ![c] = <<Succeeded(n.message)>>]
                /\ UNCHANGED <<value, csLocal>>
         [] OTHER ->
              /\ cs' = [cs EXCEPT ![c] = "done"]
              /\ csReply' = [csReply EXCEPT ![c] = <<Succeeded(<<"Command not recognized">>)>>]
              /\ UNCHANGED <<value, log, csLocal>>
  /\ runs' = [runs EXCEPT ![c].executed = Once(@)]
  /\ UNCHANGED <<popupVars, bgVars, delayed, analysis, page>>

\* the submission with the else of content.ts:133 missing: the button is looked
\* for and clicked after the form was submitted too
submission_FormThenButton(c, e, doc) ==
  IF Elements[e].inForm
  THEN <<Write(c, e, "form submit event"), Write(c, e, "form.submit()")>>
       \o (IF searchButtons(doc) # <<>> THEN <<Write(c, searchButtons(doc)[1], "click")>>
           ELSE <<>>)
  ELSE IF searchButtons(doc) # <<>>
  THEN <<Write(c, searchButtons(doc)[1], "click")>>
  ELSE <<Write(c, e, "keydown"), Write(c, e, "keypress"), Write(c, e, "keyup"),
         Write(c, Document, "keydown")>>

\* content.ts:125-180: the submission writes of performSearch after the wait
submission(c, e, doc) ==
  IF Elements[e].inForm
  THEN <<Write(c, e, "form submit event"), Write(c, e, "form.submit()")>>
  ELSE IF searchButtons(doc) # <<>>
  THEN <<Write(c, searchButtons(doc)[1], "click")>>
  ELSE <<Write(c, e, "keydown"), Write(c, e, "keypress"), Write(c, e, "keyup"),
         Write(c, Document, "keydown")>>

\* content.ts:171: the last branch leaves a setTimeout(..., 200) pending
schedulesEnter(e, doc) == ~Elements[e].inForm /\ searchButtons(doc) = <<>>

\* content.ts:122-184 and 32: the wait is over; submission, then sendResponse
performSearchResume(c) ==
  /\ cs[c] = "wait100"
  /\ log' = log \o submission(c, csLocal[c].input, page)
  /\ delayed' = IF schedulesEnter(csLocal[c].input, page) THEN delayed \cup {c} ELSE delayed
  /\ cs' = [cs EXCEPT ![c] = "done"]
  /\ csReply' = [csReply EXCEPT ![c] = <<Succeeded(<<"Searched for: ", csLocal[c].query>>)>>]
  /\ UNCHANGED <<runs, popupVars, bgVars, csLocal, analysis, page, value>>

\* content.ts:171-178: the timer's callback
delayedEnter(c) ==
  /\ c \in delayed
  /\ log' = Append(log, Write(c, csLocal[c].input, "keydown"))
  /\ delayed' = delayed \ {c}
  /\ UNCHANGED <<runs, popupVars, bgVars, cs, csLocal, csReply, analysis, page, value>>

\* handleAnalyzePage marking what it found: the first search input is focused
handleAnalyzePage_FocusesInput ==
  /\ analysis' = <<[success |-> TRUE,
                    searchInputs |-> Len(findSearchInputs(page)),
                    navigationElements |-> Len(findNavigationElements(page, "next"))
                                            + Len(findNavigationElements(page, "previous"))]>>
  /\ log' = IF findSearchInputs(page) = <<>> THEN log
            ELSE Append(log, Write(0, Head(findSearchInputs(page)), "focus"))
  /\ UNCHANGED <<runs, popupVars, bgVars, cs, csLocal, csReply, delayed, page, value>>

\* content.ts:15-17 and 274-284: an ANALYZE_PAGE request is answered in the
\* listener's own task with the lengths of the three discovery results
handleAnalyzePage ==
  /\ analysis' = <<[success |-> TRUE,
                    searchInputs |-> Len(findSearchInputs(page)),
                    navigationElements |-> Len(findNavigationElements(page, "next"))
                                            + Len(findNavigationElements(page, "previous"))]>>
  /\ UNCHANGED <<runs, popupVars, bgVars, cs, csLocal, csReply, delayed, domVars>>

\* The active tab loads another document: a new page, none of the old elements'
\* state, and a content script with nothing pending (no command is mid-execution).
navigate(newPage) ==
  /\ newPage # page
  /\ \A c \in Ids : cs[c] \in {"idle", "done"}
  /\ delayed = {}
  /\ page' = newPage
  /\ value' = [e \in ElemIds |-> NoText]
  /\ log' = <<>>
  /\ UNCHANGED <<runs, popupVars, bgVars, csVars>>

\* ------------------------------------------------------------------ inputs
\* The documents a run starts on (element ids in document order)
Pages ==
  { <<12>>,           \* no control at all
    <<1>>,            \* a search box in a form
    <<2, 7>>,         \* a search box outside a form and a visible search button
    <<3, 8>>,         \* a search box, no form, the only button hidden
    <<4, 2>>,         \* a number input named search_radius before the search box
    <<5, 2>>,         \* a file input named search_by_image before the search box
    <<10, 11, 9>>,    \* previous link, next link, next button
    <<1, 7>>,         \* a search box in a form and a visible search button
    <<9, 6>> }        \* a next button and a textarea

\* Documents with a control that is not displayed
HiddenPages ==
  { <<13, 2>> }       \* a search input that is not displayed before the search box

\* The pages the popup's (search) command is run on in the whole-extension runs
SearchPages == { <<12>>, <<1>>, <<3, 8>>, <<5, 2>> }

\* ------------------------------------------------------------ specification
\* The state once initializePopup has run (popup.ts:20-47) and the content script
\* is loaded on the page.
InitOn(pages) ==
  /\ isRecording = FALSE
  /\ mediaRecorder = 0
  /\ audioChunks = 0
  /\ status = updateStatus(<<"Ready to listen">>, "ready")
  /\ button = [state |-> "ready", disabled |-> FALSE]
  /\ transcription = NoText
  /\ held = FALSE
  /\ ses = [p \in Ids |-> "unused"]
  /\ basic = {}
  /\ streamLive = {}
  /\ captured = {}
  /\ overdue = {}
  /\ bg = [p \in Ids |-> "idle"]
  /\ popupReply = [p \in Ids |-> <<>>]
  /\ cmd = [p \in Ids |-> NoCommand]
  /\ cs = [p \in Ids |-> "idle"]
  /\ csLocal = [p \in Ids |-> [input |-> 0, query |-> NoText]]
  /\ csReply = [p \in Ids |-> <<>>]
  /\ delayed = {}
  /\ analysis = <<>>
  /\ page \in pages
  /\ value = [e \in ElemIds |-> NoText]
  /\ log = <<>>
  /\ runs = [p \in Ids |-> NoRuns]

\* the page of the end-to-end scenario: one search box
Init == InitOn({<<1>>})

PopupNext ==
  \/ startRecording
  \/ mouseup
  \/ mouseleave
  \/ \E p \in Ids : startRecordingResume(p)
  \/ \E p \in Ids : \E name \in MicErrors : startRecordingCatch(p, name)
  \/ \E p \in Ids : trySimpleRecordingResume(p)
  \/ \E p \in Ids : trySimpleRecordingCatch(p)
  \/ \E p \in Ids : \E size \in {0, 1} : ondataavailable(p, size)
  \/ \E p \in Ids : \E size \in {0, 1} : handleRecordingComplete(p, size)
  \/ \E p \in Ids : simulateSpeechRecognition(p)
  \/ \E p \in Ids : boundedWaitElapses(p)
  \/ \E p \in Ids : processVoiceCommand(p)

BackgroundNext ==
  \/ \E p \in Ids : \E how \in {Undefined, Rejected} : sendMessageUnanswered(p, how)
  \/ \E p \in Ids : handleVoiceCommand(p)
  \/ \E p \in Ids : \E tab \in Tabs : handleVoiceCommandTab(p, tab)
  \/ \E p \in Ids : handleVoiceCommandResume(p)
  \/ \E p \in Ids : handleVoiceCommandCatch(p)

ContentNext ==
  \/ \E c \in Ids : handleExecuteCommand(c)
  \/ \E c \in Ids : performSearchResume(c)
  \/ \E c \in Ids : delayedEnter(c)

PageNext == \E newPage \in SearchPages : navigate(newPage)

Next == PopupNext \/ BackgroundNext \/ ContentNext \/ PageNext

\* The whole extension: popup, background and content script
Spec == Init /\ [][Next]_vars

\* The steps of session p that no user action is needed for: a pending call
\* settles, a queued task or timer callback runs
Progress(p) ==
  \/ startRecordingResume(p)
  \/ \E name \in MicErrors : startRecordingCatch(p, name)
  \/ trySimpleRecordingResume(p)
  \/ trySimpleRecordingCatch(p)
  \/ \E size \in {0, 1} : handleRecordingComplete(p, size)
  \/ simulateSpeechRecognition(p)
  \/ processVoiceCommand(p)
  \/ handleVoiceCommand(p)
  \/ \E tab \in Tabs : handleVoiceCommandTab(p, tab)
  \/ handleVoiceCommandResume(p)
  \/ handleVoiceCommandCatch(p)
  \/ handleExecuteCommand(p)
  \/ performSearchResume(p)
  \/ delayedEnter(p)

\* Every pending asynchronous call settles and every queued task runs
Fairness == \A p \in Ids : WF_vars(Progress(p))

\* The sessions on one page: the user's input, every session's own steps, the
\* recorder's timeslices and a request nobody answers; the tab stays on its page
\* and the waiting time is not observed.
FairNext ==
  \/ startRecording
  \/ mouseup
  \/ mouseleave
  \/ \E p \in Ids : Progress(p)
  \/ \E p \in Ids : \E size \in {0, 1} : ondataavailable(p, size)
  \/ \E p \in Ids : \E how \in {Undefined, Rejected} : sendMessageUnanswered(p, how)

\* on any page the popup's command is run on
FairInit == InitOn(SearchPages)

FairSpec == FairInit /\ [][FairNext]_vars /\ Fairness

\* The content script alone, sent any command (content.ts:7-13)
onMessage(c, commandData) ==
  /\ cs[c] = "idle"
  /\ \A d \in Ids : d < c => cs[d] # "idle"
  /\ cmd' = [cmd EXCEPT ![c] = commandData]
  /\ cs' = [cs EXCEPT ![c] = "inbox"]
  /\ UNCHANGED <<runs, popupVars, bg, popupReply, csLocal, csReply, delayed, analysis, domVars>>

ContentSpecNext ==
  \/ \E c \in Ids : \E commandData \in Commands : onMessage(c, commandData)
  \/ ContentNext

\* on any page of the catalogue
ContentInit == InitOn(Pages)

ContentSpec == ContentInit /\ [][ContentSpecNext]_vars

\* The page re-renders while a search is suspended (the wait of content.ts:120 or
\* the timer of content.ts:171): the input the search holds is removed from the
\* document, the object itself stays reachable through searchInput.
rerender(e) ==
  /\ \E i \in 1..Len(page) : page[i] = e
  /\ \E c \in Ids : (cs[c] = "wait100" \/ c \in delayed) /\ csLocal[c].input = e
  /\ LET Other(x) == x # e IN page' = SelectSeq(page, Other)
  /\ UNCHANGED <<runs, popupVars, bgVars, csVars, value, log>>

\* The content script sent one command, of any text, on a page that may re-render
CommandNext ==
  \/ \E commandData \in AllCommands : onMessage(1, commandData)
  \/ ContentNext
  \/ \E e \in ElemIds : rerender(e)

CommandSpec == ContentInit /\ [][CommandNext]_vars

\* The content script sent commands one after another or at once, on a page that
\* may re-render between them
MutatingNext ==
  \/ ContentSpecNext
  \/ \E e \in ElemIds : rerender(e)

MutatingSpec == ContentInit /\ [][MutatingNext]_vars

\* The content script sent one command and asked for page analyses at any time
AnalysisNext ==
  \/ CommandNext
  \/ handleAnalyzePage

\* on any page of the catalogue, the ones with hidden controls included
AnalysisInit == InitOn(Pages \cup HiddenPages)

AnalysisSpec == AnalysisInit /\ [][AnalysisNext]_vars

\* ------------------------------------------------------------------ claims
\* The session states of the popup, per invocation
Capturing(p) == ses[p] = "recording"
\* after stopRecording, before the result (or 'No audio recorded') is displayed
Processing(p) == ses[p] \in {"stopping", "transcribing", "awaitReply"}
AnyProcessing == \E p \in Ids : Processing(p)
\* the display of an idle popup
IdleDisplay == button.state = "ready" /\ ~button.disabled /\ status.type = "ready"
\* a step in which the button is pressed
Press == ~held /\ held'

\* C1: a press that arrives while a session is Processing is ignored: no session
\* changes state, no microphone is requested, no recorder is started.
C1_PressIgnoredWhileProcessing ==
  [][(AnyProcessing /\ Press) =>
       /\ ses' = ses
       /\ streamLive' = streamLive
       /\ mediaRecorder' = mediaRecorder
       /\ isRecording' = isRecording]_vars

\* C2: at most one session is Capturing or Processing at any time, and no two
\* recorders or microphone streams are live at once.
C2_SingleActiveSession ==
  /\ Cardinality({p \in Ids : Capturing(p) \/ Processing(p)}) <= 1
  /\ Cardinality({p \in Ids : ses[p] = "recording"}) <= 1
  /\ Cardinality(streamLive) <= 1

\* C3: once the control has been released (mouseup or mouseleave), no recorder
\* stays recording with isRecording true.
C3_ReleaseEndsCapture ==
  ~held => ~(isRecording /\ \E p \in Ids : Capturing(p))

C5_BoundedWait ==
  \A p \in Ids : p \in overdue => ~Processing(p)

\* the step in which session p's recorder stops having delivered no audio at all:
\* nothing in its timeslices and nothing in its last dataavailable
StopsWithoutAudio(p) ==
  /\ ses[p] = "stopping"
  /\ ses'[p] # "stopping"
  /\ p \notin captured
  /\ audioChunks' = audioChunks

\* C6: a session whose recorder stops with no audio captured returns directly to
\* Idle, and no PROCESS_VOICE_COMMAND is sent for it.
C6_NoAudioNoPipeline ==
  [][\A p \in Ids : StopsWithoutAudio(p) =>
       /\ ses'[p] = "noAudio"
       /\ IdleDisplay'
       /\ bg'[p] = "idle"
       /\ cs'[p] = "idle"]_vars

\* the terminal outcome of a command, from the content script's response
ContentOutcome(r) ==
  CASE ~r.success -> "execution failed"
    [] r.result = <<"Command not recognized">> -> "command not recognized"
    [] r.result = <<"No search box found on this page">> -> "no search box found"
    [] r.result[1] = "No " -> "no navigation button found"
    [] OTHER -> "action executed"

\* session p has reported the outcome of a command the content script answered
Reported(p) == ses[p] = "done" /\ popupReply[p] # <<>> /\ csReply[p] # <<>>

\* the status text the popup displayed for session p
StatusShown(p) == processVoiceCommandStatus(Head(popupReply[p])).message

\* C7: two commands that ended in different terminal outcomes were not displayed
\* with the same status text.
C7_DistinctStatusPerOutcome ==
  \A p, q \in Ids :
    (/\ Reported(p)
     /\ Reported(q)
     /\ ContentOutcome(Head(csReply[p])) # ContentOutcome(Head(csReply[q])))
    => StatusShown(p) # StatusShown(q)

\* command c finds no control of the kind it needs on the page
NoControl(c) ==
  LET branch == Interpretations[cmd[c]].branch
  IN \/ branch = "search" /\ findSearchInputs(page) = <<>>
     \/ branch \in {"next", "previous"} /\ findNavigationElements(page, branch) = <<>>

NoControlMessage(c) ==
  LET branch == Interpretations[cmd[c]].branch
  IN IF branch = "search" THEN <<"No search box found on this page">>
     ELSE <<"No ", branch, " button found on this page">>

\* the step in which the content script takes command c up
Executes(c) == cs[c] = "inbox" /\ cs'[c] # "inbox"

\* C8: when no control of the relevant kind is discovered, the response carries
\* success = false and the 'No ... found on this page' message.
C8_NoControlIsFailure ==
  [][\A c \in Ids : (Executes(c) /\ NoControl(c)) =>
       /\ csReply'[c] # <<>>
       /\ ~Head(csReply'[c]).success
       /\ NoControlMessage(c) \in {Head(csReply'[c]).error, Head(csReply'[c]).result}]_vars

\* C9: when no control of the relevant kind is discovered, executing the command
\* does not throw (executeBasicCommand returns and line 32 answers) and writes
\* nothing to the DOM: no value assigned, no event dispatched, no click.
C9_NoControlNoEffect ==
  [][\A c \in Ids : (Executes(c) /\ NoControl(c)) =>
       /\ value' = value
       /\ log' = log
       /\ delayed' = delayed
       /\ cs'[c] = "done"
       /\ csReply'[c] # <<>>
       /\ Head(csReply'[c]).success]_vars

\* a command has been answered on a page without the control it needs
C9_Witness ==
  /\ \E c \in Ids : cs[c] = "done" /\ csReply[c] # <<>> /\ NoControl(c)
                    /\ Interpretations[cmd[c]].branch = "search"
  /\ \E c \in Ids : cs[c] = "done" /\ csReply[c] # <<>> /\ NoControl(c)
                    /\ Interpretations[cmd[c]].branch = "next"

\* command c is a search on a page with at least one discovered input
SearchWithInput(c) ==
  Interpretations[cmd[c]].branch = "search" /\ findSearchInputs(page) # <<>>

\* command c has dispatched ev on element e
Dispatched(c, e, ev) == \E i \in 1..Len(log) : log[i] = Write(c, e, ev)

\* C10: when a search command has been executed on a page with a discovered input,
\* the first discovered input's value is the extracted query, 'input' and 'change'
\* were dispatched on it, and the result is success 'Searched for: <query>'.
C10_SearchFillsFirstInput ==
  [][\A c \in Ids : (SearchWithInput(c) /\ cs[c] # "done" /\ cs'[c] = "done") =>
       LET first == Head(findSearchInputs(page))
           query == Interpretations[cmd[c]].query
       IN /\ value'[first] = query
          /\ Dispatched(c, first, "input")'
          /\ Dispatched(c, first, "change")'
          /\ csReply'[c] = <<Succeeded(<<"Searched for: ", query>>)>>]_vars

\* ---- command interpretation (C11-C16)
\* the documented keyword sets of the three intents, matched on the lower-case text
SearchKeywords ==
  { <<"s","e","a","r","c","h">>, <<"f","i","n","d">>,
    <<"l","o","o","k"," ","f","o","r">>, <<"s","h","o","w"," ","m","e">> }
FilterKeywords ==
  { <<"f","i","l","t","e","r">>, <<"o","n","l","y"," ","s","h","o","w">>,
    <<"u","n","d","e","r">>, <<"a","b","o","v","e">>, <<"b","e","t","w","e","e","n">> }
NextKeywords == { <<"n","e","x","t">>, <<"m","o","r","e"," ","r","e","s","u","l","t","s">> }
PreviousKeywords == { <<"p","r","e","v","i","o","u","s">>, <<"b","a","c","k">> }

\* the text of command data, as spoken
SpokenText(commandData) == IF commandData.defined THEN commandData.text ELSE NoText

HasKeyword(commandData, keywords) ==
  \E k \in keywords : Includes(ToLowerCase(SpokenText(commandData)), k)

HasNumber(commandData) ==
  \E i \in 1..Len(SpokenText(commandData)) : SpokenText(commandData)[i] \in Digits

KeywordsOf(intent) ==
  CASE intent = "search" -> SearchKeywords
    [] intent = "filter" -> FilterKeywords
    [] intent = "navigate" -> NextKeywords \cup PreviousKeywords

\* the intents whose keywords occur in the text
IntentsPresent(commandData) ==
  {intent \in {"search", "filter", "navigate"} : HasKeyword(commandData, KeywordsOf(intent))}

\* the first intent present in the order search > filter > navigate
PriorityIntent(commandData) ==
  CASE "search" \in IntentsPresent(commandData) -> "search"
    [] "filter" \in IntentsPresent(commandData) -> "filter"
    [] "navigate" \in IntentsPresent(commandData) -> "navigate"
    [] OTHER -> "unknown"

\* command c has been answered
Answered(c) == cs[c] = "done" /\ csReply[c] # <<>>

\* what the content script handled an answered command as, read from its response:
\* only performSearch throws, searches and answers with the search messages; only
\* performNavigation answers with the button messages
HandledAs(c) ==
  LET r == Head(csReply[c])
  IN CASE ~r.success -> "search"
       [] r.result = <<"Command not recognized">> -> "unknown"
       [] r.result = <<"No search box found on this page">> -> "search"
       [] r.result[1] = "Searched for: " -> "search"
       [] r.result[1] \in {"Clicked ", "No "} -> "navigate"
       [] OTHER -> "filter"

\* the direction of an answered navigate command
HandledDirection(c) == Head(csReply[c]).result[2]

\* C11: a command whose text holds keywords of more than one intent is handled as
\* the first of them in the order search > filter > navigate.
C11_IntentPriority ==
  \A c \in Ids :
    (Answered(c) /\ Cardinality(IntentsPresent(cmd[c])) > 1)
    => HandledAs(c) = PriorityIntent(cmd[c])

\* C12: a command whose text holds a search keyword ('search', 'find', 'look for',
\* 'show me') and no filter or navigate keyword is handled as a search, never
\* reported as 'Command not recognized'.
C12_SearchKeywordIsSearch ==
  \A c \in Ids :
    (Answered(c) /\ IntentsPresent(cmd[c]) = {"search"})
    => HandledAs(c) = "search"

\* C13: a command whose text holds a filter keyword and a numeric token and no
\* search keyword is handled as a filter, not reported as 'Command not recognized'.
C13_FilterKeywordIsFilter ==
  \A c \in Ids :
    (/\ Answered(c)
     /\ "filter" \in IntentsPresent(cmd[c])
     /\ "search" \notin IntentsPresent(cmd[c])
     /\ HasNumber(cmd[c]))
    => HandledAs(c) = "filter"

\* C14: with no search or filter keyword, 'next' or 'more results' is a navigate
\* command of direction next, and 'previous' or 'back' (no next keyword) one of
\* direction previous.
C14_NavigationDirection ==
  \A c \in Ids :
    (Answered(c) /\ IntentsPresent(cmd[c]) = {"navigate"})
    => /\ HandledAs(c) = "navigate"
       /\ HandledDirection(c) = IF HasKeyword(cmd[c], NextKeywords) THEN "next" ELSE "previous"

\* the command-prefix phrase the (trimmed) text starts with, in any letter case
LeadingPrefix(text) ==
  {k \in 1..Len(CommandPrefixes) : MatchAt(ToLowerCase(Trim(text)), 1, CommandPrefixes[k])}

\* the text after its leading prefix phrase, trimmed
AfterPrefix(text) ==
  LET k == CHOOSE j \in LeadingPrefix(text) : TRUE
  IN Trim(SubSeq(Trim(text), Len(CommandPrefixes[k]) + 1, Len(Trim(text))))

\* command c ran performSearch past the discovery of an input
Searched(c) == cs[c] \in {"wait100", "done"} /\ csLocal[c].input # 0

\* C15: the query of a search command is its text with the leading command-prefix
\* phrase stripped and the remainder trimmed, the words after the prefix unchanged.
C15_QueryIsTextAfterPrefix ==
  \A c \in Ids :
    (Searched(c) /\ LeadingPrefix(SpokenText(cmd[c])) # {})
    => csLocal[c].query = AfterPrefix(SpokenText(cmd[c]))

\* C16: a command whose text holds no intent keyword (or has no text) is answered
\* 'Command not recognized' in the step that takes it up, with nothing kept of a
\* search and the DOM unchanged.
C16_UnknownIsTerminal ==
  [][\A c \in Ids : (Executes(c) /\ IntentsPresent(cmd[c]) = {}) =>
       /\ cs'[c] = "done"
       /\ csReply'[c] = <<Succeeded(<<"Command not recognized">>)>>
       /\ csLocal' = csLocal
       /\ delayed' = delayed
       /\ value' = value
       /\ log' = log]_vars

\* a command without keyword has been answered on a page that has a search box
\* and one without text on a page with navigation controls
C16_Witness ==
  \/ /\ Answered(1) /\ cmd[1] = Command(<<"h","e","l","l","o">>)
     /\ findSearchInputs(page) # <<>>
     /\ HandledAs(1) = "unknown"
  \/ /\ Answered(1) /\ cmd[1] = NoCommand
     /\ findNavigationElements(page, "next") # <<>>
     /\ HandledAs(1) = "unknown"

\* ---- execution (C17-C20)
\* the DOM writes a step appends
NewWrites == {i \in 1..Len(log') : i > Len(log)}

\* element e is a navigation control for the direction: it matches one of the
\* selectors that name the direction (all but a[href*="page"])
QualifiesAs(direction, e) ==
  \E k \in 2..NumNavSelectors : NavSelectorMatches(direction, k, Elements[e])

\* C17: the element a navigate command clicks is a navigation control of the
\* requested direction.
C17_ClickMatchesDirection ==
  [][\A c \in Ids : (Executes(c) /\ Interpretations[cmd[c]].branch \in {"next", "previous"}) =>
       \A i \in NewWrites :
         log'[i].ev = "click" => QualifiesAs(Interpretations[cmd[c]].branch, log'[i].on)]_vars

\* element e is attached to the document
Attached(e) == e = Document \/ \E i \in 1..Len(page) : page[i] = e

\* C18: every value assignment, event dispatch, form submission and click acts on
\* a target that is attached to the document at that moment.
C18_NoActionOnDetached ==
  [][\A i \in NewWrites : Attached(log'[i].on)]_vars

\* command c has attempted candidate e: it is the input it went for, or it wrote to it
Attempted(c, e) == csLocal[c].input = e \/ Dispatched(c, e, "value")

\* C19: a command is reported as failed only after every discovered candidate has
\* been attempted.
C19_FailedAfterAllCandidates ==
  \A c \in Ids :
    (Answered(c) /\ ~Head(csReply[c]).success)
    => \A i \in 1..Len(findSearchInputs(page)) : Attempted(c, findSearchInputs(page)[i])

\* the submission method a DOM write belongs to
MethodOf(w) ==
  CASE w.ev \in {"form submit event", "form.submit()"} -> "form"
    [] w.ev = "click" -> "button"
    [] w.ev \in {"keydown", "keypress", "keyup"} -> "enter"
    [] OTHER -> "none"

MethodsUsed(c) ==
  {MethodOf(log[i]) : i \in {j \in 1..Len(log) : log[j].cmd = c}} \ {"none"}

\* command c has reported a search as carried out
SearchDone(c) == Answered(c) /\ Searched(c) /\ Head(csReply[c]).success

Discovers ==
  \/ analysis' # analysis
  \/ \E c \in Ids : Executes(c) /\ Interpretations[cmd[c]].branch # "unknown"

\* the results discovery returns on the document: the search inputs and the
\* navigation elements of either direction
DiscoveryResults(doc) ==
  {findSearchInputs(doc), findNavigationElements(doc, "next"),
   findNavigationElements(doc, "previous")}

\* no element occurs twice in the sequence
ListedOnce(seq) == \A i, j \in 1..Len(seq) : seq[i] = seq[j] => i = j

\* C22: each page element appears at most once in a discovery result, however many
\* selectors match it.
C22_ElementListedOnce ==
  [][Discovers => \A found \in DiscoveryResults(page) : ListedOnce(found)]_vars

\* C23: every control discovery returns is visible (rendered box not empty) and
\* attached to the document.
C23_DiscoveredIsVisible ==
  [][Discovers =>
       \A found \in DiscoveryResults(page) : \A i \in 1..Len(found) :
         IsVisible(found[i]) /\ Attached(found[i])]_vars

\* ---- page analysis (C27)
\* C27: answering ANALYZE_PAGE, which runs the three discoveries, only reads the
\* page: no element's value changes, no event is dispatched, nothing is clicked,
\* the document keeps its elements and no command in progress is touched.
C27_DiscoveryOnlyReads ==
  [][analysis' # analysis =>
       /\ value' = value
       /\ log' = log
       /\ page' = page
       /\ <<cs, csLocal, csReply, delayed>>' = <<cs, csLocal, csReply, delayed>>]_vars

\* a page is analysed while a search is suspended on it: the search has written
\* its query, the page has dropped the input since, and the analysis finds none
C27_Witness ==
  /\ analysis # <<>>
  /\ Head(analysis).searchInputs = 0
  /\ \E c \in Ids : cs[c] = "wait100" /\ value[csLocal[c].input] # NoText

\* ---- concurrent commands (C25)
\* command c has begun writing to the DOM: its value assignment is done
Begun(c) == \E i \in 1..Len(log) : log[i].cmd = c /\ log[i].ev = "value"

\* C25: once a command has begun writing to the DOM, no other command writes to
\* it before the first one's submission is attempted and its result sent.
C25_WritesDoNotInterleave ==
  [][\A i \in NewWrites : \A c \in Ids :
       (Begun(c) /\ cs[c] # "done") => log'[i].cmd = c]_vars

\* ---- responses (C26)
\* { success, result?, error? }: a result exactly when success is true, an error
\* exactly when it is false
WellShaped(r) ==
  /\ r.present
  /\ r.success <=> r.result # <<>>
  /\ ~r.success <=> r.error # <<>>

\* no response while the handler runs, one well-shaped response once it has ended
ContentResponse(c) ==
  /\ cs[c] \in {"idle", "inbox", "wait100"} => csReply[c] = <<>>
  /\ cs[c] = "done" => Len(csReply[c]) = 1 /\ WellShaped(Head(csReply[c]))

\* the same for a request the background's listener took up
BackgroundResponse(p) ==
  /\ bg[p] \in {"query", "forwarded", "rejecting"} => popupReply[p] = <<>>
  /\ bg[p] = "done" =>
       /\ Len(popupReply[p]) = 1
       /\ Head(popupReply[p]).kind = "response"
       /\ Head(popupReply[p]).value.present
       /\ ~Head(popupReply[p]).value.success <=> Head(popupReply[p]).value.error # <<>>

\* a response that was sent is not replaced by another one
ResponseKept(p) ==
  /\ (csReply[p] # <<>> /\ cs'[p] = "done") => csReply'[p] = csReply[p]
  /\ (popupReply[p] # <<>> /\ bg'[p] = "done") => popupReply'[p] = popupReply[p]

\* C26: every EXECUTE_VOICE_COMMAND request receives exactly one response, of the
\* shape { success, result?, error? }, and every PROCESS_VOICE_COMMAND request the
\* background's listener takes up receives exactly one response, on the paths no
\* active tab, forwarded and answered, and forwarding failed.
C26_ExactlyOneResponse ==
  /\ [](\A p \in Ids : ContentResponse(p) /\ BackgroundResponse(p))
  /\ [][\A p \in Ids : ResponseKept(p)]_vars
  /\ \A p \in Ids : cs[p] = "inbox" ~> csReply[p] # <<>>
  /\ \A p \in Ids : bg[p] = "query" ~> popupReply[p] # <<>>

\* one request was answered 'No active tab found', another was forwarded and
\* answered with the content script's error response
C26_Witness ==
  \E p, q \in Ids :
    /\ popupReply[p] = <<Response(Failed(<<"No active tab found">>))>>
    /\ csReply[q] = <<Failed(<<"InvalidStateError">>)>>
    /\ popupReply[q] = <<Response(Succeeded(Head(csReply[q])))>>

\* ---- the popup's state sequence (C28)
\* the steps of the button state in the cycle ready, recording, processing, ready
ButtonCycle ==
  { <<"ready", "recording">>, <<"recording", "processing">>, <<"processing", "ready">> }

\* C28: the button state only steps along ready -> recording -> processing ->
\* ready: never from ready to processing, from recording to ready or from
\* processing to recording.
C28_ButtonStateSequence ==
  [][button'.state # button.state => <<button.state, button'.state>> \in ButtonCycle]_vars

\* ---- one pipeline run per recording (C29)
\* C29: for one press-release cycle handleRecordingComplete runs at most once, at
\* most one PROCESS_VOICE_COMMAND is sent, the background forwards at most one
\* EXECUTE_VOICE_COMMAND and the command is executed on the page at most once.
C29_OnePipelineRun ==
  \A p \in Ids :
    /\ runs[p].completed <= 1
    /\ runs[p].sent <= 1
    /\ runs[p].forwarded <= 1
    /\ runs[p].executed <= 1

\* one recording's pipeline has run to its end, every stage once, and mouseup and
\* mouseleave both fired for the release of another, which was completed once
C29_Witness ==
  \E p, q \in Ids :
    /\ ses[p] = "done"
    /\ runs[p] = [releases |-> 0, completed |-> 1, sent |-> 1, forwarded |-> 1, executed |-> 1]
    /\ ses[q] = "transcribing"
    /\ runs[q] = [releases |-> 2, completed |-> 1, sent |-> 0, forwarded |-> 0, executed |-> 0]

\* ---- order of the stages and of the DOM writes (C30)
\* the place of a DOM write in performSearch: the value assignment, the 'input'
\* event, the 'change' event, the focus, and then the submission attempts
Stage(w) ==
  CASE w.ev = "value" -> 1
    [] w.ev = "input" -> 2
    [] w.ev = "change" -> 3
    [] w.ev = "focus" -> 4
    [] OTHER -> 5

\* what discovery offers a search on the document as a target
Targets(doc) ==
  UNION { {found[i] : i \in 1..Len(found)} : found \in {findSearchInputs(doc), searchButtons(doc)} }
    \cup {Document}

\* the same, computed once per document of the catalogue
TargetsOn ==
  [doc \in Pages \cup HiddenPages |-> Targets(doc)] @@ [x \in {} |-> x]

\* nothing is written for a command before it is taken up and classified, and the
\* query a search holds is the one extracted from the command's text
ClassifiedFirst(c) ==
  /\ cs[c] \in {"idle", "inbox"} => \A i \in 1..Len(log) : log[i].cmd # c
  /\ (Interpretations[cmd[c]].branch = "search" /\ Searched(c)) =>
       csLocal[c].query = Interpretations[cmd[c]].query

\* C30: within a search command nothing is written before the command is
\* classified, the query held is the one extracted from the text, every write goes
\* to what discovery returned, and the value assignment precedes the 'input' event,
\* which precedes the 'change' event, which precedes every submission attempt
\* (none of which is made without the three).
C30_StagesAndWritesInOrder ==
  [][/\ \A c \in Ids : ClassifiedFirst(c)'
     /\ \A i \in NewWrites :
          Interpretations[cmd[log'[i].cmd]].branch = "search" =>
            /\ log'[i].on \in TargetsOn[page]
            /\ \A j \in 1..Len(log) :
                 log[j].cmd = log'[i].cmd => Stage(log[j]) <= Stage(log'[i])
            /\ \A j \in NewWrites : j < i => Stage(log'[j]) <= Stage(log'[i])
            /\ MethodOf(log'[i]) # "none" =>
                 /\ Dispatched(log'[i].cmd, csLocal[log'[i].cmd].input, "value")
                 /\ Dispatched(log'[i].cmd, csLocal[log'[i].cmd].input, "input")
                 /\ Dispatched(log'[i].cmd, csLocal[log'[i].cmd].input, "change")]_vars

\* a search has been submitted with the Enter keys, the delayed one included
C30_Witness ==
  \E c \in Ids : /\ SearchDone(c)
                 /\ c \notin delayed
                 /\ MethodsUsed(c) = {"enter"}
                 /\ Dispatched(c, csLocal[c].input, "value")
                 /\ Dispatched(c, csLocal[c].input, "keyup")

\* ---- no caching across commands (C31)
\* the first element of a discovery result, 0 when it is empty
First(found) == IF found = <<>> THEN 0 ELSE Head(found)

\* C31: the target of a command is computed from the document as it is when the
\* command runs: a search goes for the first input discovery finds then (none if it
\* finds none), a navigation clicks the first element discovery finds then.
C31_DiscoveryIsFresh ==
  [][\A c \in Ids : Executes(c) =>
       /\ Interpretations[cmd[c]].branch = "search" =>
            csLocal'[c].input = First(findSearchInputs(page))
       /\ Interpretations[cmd[c]].branch \in {"next", "previous"} =>
            \A i \in NewWrites :
              log'[i].on = First(findNavigationElements(page, Interpretations[cmd[c]].branch))]_vars

\* a search found its input, the page dropped that input, and a later search on
\* the same page was answered that there is no search box
C31_Witness ==
  \E c, d \in Ids :
    /\ c # d
    /\ csLocal[c].input # 0
    /\ ~Attached(csLocal[c].input)
    /\ Answered(d)
    /\ Head(csReply[d]) = Succeeded(<<"No search box found on this page">>)

\* ---- ranking (C32)
\* the selectors of findSearchInputs that match some element of the document
MatchingSelectors(doc) ==
  {k \in 1..NumSearchSelectors : QuerySearchSelector(doc, k) # <<>>}

\* the position of the earliest-listed selector that matches element e
Rank(e) ==
  Smallest({k \in 1..NumSearchSelectors : SearchSelectorMatches(k, Elements[e])})

\* the top-ranked control: the first element in document order that the
\* earliest-listed matching selector matches
TopRanked(doc) == Head(QuerySearchSelector(doc, Smallest(MatchingSelectors(doc))))

\* C32: a search acts on the top-ranked control, and the discovered sequence is
\* ordered by non-decreasing position of the matching selector.
C32_TargetIsTopRanked ==
  [][\A c \in Ids :
       (/\ Executes(c)
        /\ Interpretations[cmd[c]].branch = "search"
        /\ MatchingSelectors(page) # {}) =>
         /\ csLocal'[c].input = TopRanked(page)
         /\ \A found \in {findSearchInputs(page)} : \A i, j \in 1..Len(found) :
              i < j => Rank(found[i]) <= Rank(found[j])]_vars

\* ---- navigation (C33)
\* C33: a next or previous command on a page with a discovered navigation element
\* dispatches exactly one click, on the first discovered element, writes nothing
\* else, and answers 'Clicked <direction> button'.
C33_OneClickOnFirstElement ==
  [][\A c \in Ids :
       \A direction \in {Interpretations[cmd[c]].branch} :
         (/\ Executes(c)
          /\ direction \in {"next", "previous"}
          /\ findNavigationElements(page, direction) # <<>>) =>
           /\ log' = Append(log, Write(c, Head(findNavigationElements(page, direction)), "click"))
           /\ value' = value
           /\ delayed' = delayed
           /\ csReply'[c] = <<Succeeded(<<"Clicked ", direction, " button">>)>>]_vars

C33_Witness ==
  \E c \in Ids : \E direction \in {"next", "previous"} :
    /\ Answered(c)
    /\ Head(csReply[c]) = Succeeded(<<"Clicked ", direction, " button">>)
    /\ Len(findNavigationElements(page, direction)) > 1
    /\ \E i \in 1..Len(log) :
         log[i] = Write(c, Head(findNavigationElements(page, direction)), "click")

\* ---- failures of the content script (C34)
\* C34: when the content script answered success = false with an error, the popup
\* shows a failure status carrying that error, and it shows 'Command executed
\* successfully' only when the content script's response reported success.
C34_ContentFailureReachesUser ==
  \A p \in Ids : Reported(p) =>
    \A r \in {Head(csReply[p])} :
      /\ ~r.success => StatusShown(p) = <<"x ", r.error>>
      /\ StatusShown(p) = <<"Command executed successfully">> => r.success

\* ---- microphone failures (C35)
\* the step in which the press of session p fails to acquire the microphone for a
\* reason other than OverconstrainedError: mediaDevices is missing (popup.ts:78-80)
\* or getUserMedia rejected (popup.ts:88, 120-160)
MicFails(p) ==
  /\ ses[p] # "micFailed"
  /\ ses[p] # "awaitSimpleMic"
  /\ ses'[p] = "micFailed"

\* C35: when acquiring the microphone fails for a reason other than
\* OverconstrainedError, the popup is Idle again: isRecording is false, the press
\* has no recorder, the status type is 'ready', and no PROCESS_VOICE_COMMAND is
\* sent for the press.
C35_MicFailureReturnsToIdle ==
  [][\A p \in Ids :
       /\ MicFails(p) =>
            /\ ~isRecording'
            /\ status'.type = "ready"
       /\ (ses[p] = "micFailed" \/ MicFails(p)) =>
            /\ p \notin streamLive'
            /\ ses'[p] \in {"micFailed", "unused", "awaitMic"}
            /\ bg'[p] = "idle"
            /\ runs'[p].sent = 0]_vars

\* ---- microphone streams (C36)
\* a press is pending while the control is held or a getUserMedia call of
\* startRecording or trySimpleRecording has not settled
PressPending ==
  held \/ \E p \in Ids : ses[p] \in {"awaitMic", "awaitSimpleMic"}

\* C36: whenever the popup is Idle (isRecording false, button 'ready', status type
\* 'ready') with no press pending, no acquired stream has live tracks.
C36_StreamsReleasedAtIdle ==
  (~isRecording /\ IdleDisplay /\ ~PressPending) => streamLive = {}

\* ---- the recording flag (C37)
\* C37: isRecording is true exactly when a recorder is live and recording and the
\* button shows 'recording'; the button is never 'ready' or 'processing' while
\* isRecording is true.
C37_FlagAgreesWithSession ==
  /\ isRecording <=> ((\E p \in Ids : Capturing(p)) /\ button.state = "recording")
  /\ isRecording => button.state \notin {"ready", "processing"}

\* ---- writes after the response (C38)
\* C38: once the content script has sent back the result of a command, that
\* command causes no further DOM write.
C38_NoWriteAfterResponse ==
  [][\A c \in Ids : csReply[c] # <<>> =>
       \A i \in NewWrites : log'[i].cmd # c]_vars

\* ---- the background's failure answers (C39)
\* the message chrome.tabs.sendMessage rejects with when the tab runs no content
\* script
NoReceiver == <<"Could not establish connection. Receiving end does not exist.">>

\* C39: with no active tab the background answers success = false, error 'No
\* active tab found' and sends no EXECUTE_VOICE_COMMAND; when forwarding is
\* rejected it answers success = false with the rejection's message.
C39_BackgroundFailureAnswers ==
  [][\A p \in Ids :
       /\ (bg[p] = "query" /\ bg'[p] = "done") =>
            /\ popupReply'[p] = <<Response(Failed(<<"No active tab found">>))>>
            /\ cs' = cs
            /\ runs'[p].forwarded = 0
       /\ (bg[p] = "rejecting" /\ bg'[p] # "rejecting") =>
            /\ popupReply'[p] = <<Response(Failed(NoReceiver))>>
            /\ cs' = cs
       /\ (popupReply[p] = <<Response(Failed(<<"No active tab found">>))>> /\ ses'[p] = ses[p]) =>
            cs'[p] = "idle"]_vars

C39_Witness ==
  \E p, q \in Ids :
    /\ bg[p] = "done"
    /\ popupReply[p] = <<Response(Failed(<<"No active tab found">>))>>
    /\ cs[p] = "idle"
    /\ runs[p].forwarded = 0
    /\ bg[q] = "done"
    /\ popupReply[q] = <<Response(Failed(NoReceiver))>>

====
